---- MODULE Spec2Model ----
(***************************************************************************)
(* Model of streamlit_app.py: the load -> build -> compute -> render       *)
(* pipeline of the dashboard (load_data, create_graph, calculate_metrics,  *)
(* visualize_network, main).                                               *)
(*                                                                         *)
(* Values.  A table cell, a node identifier, a label or a weight is a      *)
(* record [k, v]:                                                          *)
(*   k = "none"  Python None: what row.get(col) returns for a column the   *)
(*               table does not have;                                      *)
(*   k = "nan"   the NaN pandas.read_csv stores for an empty cell; NaN is  *)
(*               truthy in Python, hashable, and found again in a dict by  *)
(*               identity (object columns hold the one numpy.nan object);  *)
(*   k = "num"   the number v (0 is falsy);                                *)
(*   k = "text"  a non-empty string, numbered v;                           *)
(*   k = "str_none", "str_nan", "str_num": str(x) of the cell x of that  *)
(*               kind, with x.v = v.                                       *)
(* Fractions are pairs <<numerator, denominator>> of integers.             *)
(***************************************************************************)
EXTENDS Integers, Sequences, FiniteSets, TLC

VARIABLES
    pc,              \* position of the script run inside main()
    selected_phase,  \* st.sidebar.selectbox value
    cache,           \* st.cache_data store of load_data, keyed by phase URLs
    attempts,        \* pd.read_csv fetches load_data started in this run
    edges_df,        \* main's local edges_df
    nodes_df,        \* main's local nodes_df
    G,               \* main's local graph
    metrics,         \* density, modularity, degree, betweenness, partition
    messages,        \* st.error / st.warning elements shown in this run
    calls,           \* the functions main has called in this run, in order
    html             \* the diagram visualize_network returned

vars == <<pc, selected_phase, cache, attempts, edges_df, nodes_df, G, metrics,
          messages, calls, html>>

----------------------------------------------------------------------------
(* Bounds of the checked input space.                                      *)
MaxNodeRows == 3
MaxEdgeRows == 3

----------------------------------------------------------------------------
(* Cells.                                                                  *)
None_ == [k |-> "none", v |-> 0]
NaN == [k |-> "nan", v |-> 0]
Num(n) == [k |-> "num", v |-> n]
Text(n) == [k |-> "text", v |-> n]

\* Python truthiness of a cell: None and 0 are falsy; NaN, non-zero numbers
\* and non-empty strings are truthy.
Truthy(c) == c.k # "none" /\ ~(c.k = "num" /\ c.v = 0)

\* Python's `a or b`.
Or(a, b) == IF Truthy(a) THEN a ELSE b

\* pandas Series.get: the cell, or None when the column does not exist.
Get(row, col) == IF col \in DOMAIN row THEN row[col] ELSE None_

\* str(x): "None", "nan", or the digits of a number.
StrOf(c) ==
    [k |-> CASE c.k = "none" -> "str_none"
             [] c.k = "nan" -> "str_nan"
             [] c.k = "num" -> "str_num"
             [] OTHER -> c.k,
     v |-> c.v]

----------------------------------------------------------------------------
(* networkx.Graph, as create_graph uses it.  order is the insertion order  *)
(* of the nodes, attr the per-node attribute dicts, edges the weight of    *)
(* every unordered pair {u, v} (a self-loop is the pair {u}).              *)
EmptyGraph == [order |-> <<>>, attr |-> <<>>, edges |-> <<>>]

Nodes(g) == DOMAIN g.attr
Edges(g) == DOMAIN g.edges

\* f with key x bound to y (dict assignment).
Put(f, x, y) == [z \in DOMAIN f \cup {x} |-> IF z = x THEN y ELSE f[z]]

\* G.add_node(n, label=l, title=l) for n other than None (AddNodeRows has
\* the exception): an existing node keeps its place and its other
\* attributes, and its label and title are overwritten.
add_node(g, n, l) ==
    LET old == IF n \in Nodes(g) THEN g.attr[n] ELSE <<>>
    IN  [g EXCEPT
            !.order = IF n \in Nodes(g) THEN @ ELSE Append(@, n),
            !.attr = Put(@, n, Put(Put(old, "label", l), "title", l))]

\* The key of the undirected edge between u and v.
EdgeKey(u, v) == {u, v}

\* The node n with an empty attribute dict, unless it is a node already:
\* what G.add_edge does with each endpoint before it stores the edge.
with_node(g, n) ==
    IF n \in Nodes(g) THEN g
    ELSE [g EXCEPT !.order = Append(@, n), !.attr = Put(@, n, <<>>)]

\* Faulty variant of add_edge: the weight of an existing edge is kept.
add_edge_keep(g, u, v, w) ==
    IF {u, v} \in DOMAIN g.edges THEN g
    ELSE [with_node(with_node(g, u), v) EXCEPT !.edges = Put(@, {u, v}, w)]

\* G.add_edge(u, v, weight=w): the attribute dict of the unordered pair is
\* updated, so the last weight written stays.
add_edge(g, u, v, w) ==
    [with_node(with_node(g, u), v) EXCEPT !.edges = Put(@, EdgeKey(u, v), w)]

\* Lines 91-92: the identifier and the label of a node row.
NodeId(row) == Or(Get(row, "Id"), Get(row, "id"))
NodeLabel(row) == Or(Get(row, "Label"), Or(Get(row, "label"), StrOf(NodeId(row))))

\* Lines 95-97: source, target and weight of an edge row.
EdgeSrc(row) == Or(Get(row, "Source"), Get(row, "source"))
EdgeTgt(row) == Or(Get(row, "Target"), Get(row, "target"))
EdgeWeight(row) == Or(Get(row, "Weight"), Or(Get(row, "weight"), Num(1)))

\* Faulty variant of BothKnown: one known endpoint is enough.
BothKnown_either(g, src, tgt) == src \in DOMAIN g.attr \/ tgt \in DOMAIN g.attr

\* Line 98: `src in G.nodes and tgt in G.nodes`.
BothKnown(g, src, tgt) == src \in Nodes(g) /\ tgt \in Nodes(g)

\* Lines 90-93, rows i..Len(rows).  networkx raises ValueError("None cannot
\* be a node") from add_node(None); the result then carries raised = TRUE
\* and the graph as it was when the exception left create_graph.
RECURSIVE AddNodeRows(_, _, _)
AddNodeRows(g, rows, i) ==
    IF i > Len(rows) THEN [raised |-> FALSE, G |-> g]
    ELSE IF NodeId(rows[i]) = None_ THEN [raised |-> TRUE, G |-> g]
    ELSE AddNodeRows(add_node(g, NodeId(rows[i]), NodeLabel(rows[i])), rows, i + 1)

\* Lines 94-99 for one row.
AddEdgeRow(g, row) ==
    IF BothKnown(g, EdgeSrc(row), EdgeTgt(row))
    THEN add_edge(g, EdgeSrc(row), EdgeTgt(row), EdgeWeight(row))
    ELSE g

\* Lines 94-99, the first n rows.
RECURSIVE AddEdgeRows(_, _, _)
AddEdgeRows(g, rows, n) ==
    IF n = 0 THEN g ELSE AddEdgeRow(AddEdgeRows(g, rows, n - 1), rows[n])

\* create_graph(edges_df, nodes_df), lines 88-100.
create_graph(edges, nodes) ==
    LET built == AddNodeRows(EmptyGraph, nodes, 1)
    IN  IF built.raised THEN built
        ELSE [raised |-> FALSE, G |-> AddEdgeRows(built.G, edges, Len(edges))]

----------------------------------------------------------------------------
(* calculate_metrics, lines 102-112, and the library calls it makes.       *)

RECURSIVE SumOver(_, _)
\* The sum of f[x] over the finite set S.
SumOver(f, S) ==
    IF S = {} THEN 0
    ELSE LET x == CHOOSE y \in S : TRUE IN f[x] + SumOver(f, S \ {x})

\* G.number_of_nodes(), G.number_of_edges()
number_of_nodes(g) == Cardinality(Nodes(g))
number_of_edges(g) == Cardinality(Edges(g))

\* The edges at node n; a self-loop is at n once and counts twice in degrees.
EdgesAt(g, n) == {e \in Edges(g) : n \in e}
Loops(g, n) == {e \in Edges(g) : e = {n}}

\* G.degree(n)
degree(g, n) == Cardinality(EdgesAt(g, n)) + Cardinality(Loops(g, n))

\* nx.density(G): 0 when m = 0 or n <= 1, else 2m / (n(n-1)).
density(g) ==
    LET n == number_of_nodes(g)
        m == number_of_edges(g)
    IN  IF m = 0 \/ n <= 1 THEN <<0, 1>> ELSE <<2 * m, n * (n - 1)>>

\* Faulty variant of degree_centrality: normalised by the node count.
degree_centrality_by_n(g) ==
    [x \in Nodes(g) |-> <<degree(g, x), number_of_nodes(g)>>]

\* nx.degree_centrality(G): 1 for every node when len(G) <= 1, else
\* degree * (1 / (len(G) - 1)).
degree_centrality(g) ==
    LET n == number_of_nodes(g)
    IN  [x \in Nodes(g) |-> IF n <= 1 THEN <<1, 1>> ELSE <<degree(g, x), n - 1>>]

\* nx.betweenness_centrality(G, weight='weight'): one float per node.  The
\* values are not modelled; "float" stands for the number computed.
betweenness_centrality(g) == [x \in Nodes(g) |-> "float"]

\* Some edge weight is NaN: every weighted sum over the edges is then NaN.
HasNaNWeight(g) == \E e \in Edges(g) : g.edges[e].k = "nan"

\* G.size(weight='weight'): the sum of the edge weights (read only when no
\* weight is NaN).
size(g) == SumOver([e \in Edges(g) |-> g.edges[e].v], Edges(g))

\* The index of x in the sequence s.
IndexOf(s, x) == CHOOSE i \in 1..Len(s) : s[i] = x

\* x and y are linked by a path of edges.
RECURSIVE Reach(_, _)
Reach(g, S) ==
    LET T == S \cup {x \in Nodes(g) : \E e \in Edges(g) : x \in e /\ e \cap S # {}}
    IN  IF T = S THEN S ELSE Reach(g, T)

\* community_louvain.best_partition(G, weight='weight').  Without edges
\* generate_dendrogram numbers the nodes in order, one community each.
\* Otherwise the result depends on a random node order: any numbering
\* 0..k-1 of communities, each inside one connected component, numbered by
\* their first node, with an entry for every node.
best_partition(g) ==
    IF Edges(g) = {}
    THEN {[x \in Nodes(g) |-> IndexOf(g.order, x) - 1]}
    ELSE {p \in [Nodes(g) -> 0..(number_of_nodes(g) - 1)] :
            /\ \A x, y \in Nodes(g) : p[x] = p[y] => y \in Reach(g, {x})
            /\ \A i \in 1..Len(g.order) :
                  \/ \E j \in 1..(i - 1) : p[g.order[j]] = p[g.order[i]]
                  \/ p[g.order[i]] =
                        Cardinality({p[g.order[j]] : j \in 1..(i - 1)})}

\* community_louvain.modularity(partition, G): raises ValueError("A graph
\* without link has an undefined modularity") when the weighted size is 0;
\* else sum over communities of inc/links - (deg/(2 links))^2, here the
\* fraction with denominator 4 links^2; NaN when a weight is NaN.
modularity(p, g) ==
    IF HasNaNWeight(g) THEN [raised |-> FALSE, value |-> NaN]
    ELSE IF size(g) = 0 THEN [raised |-> TRUE, value |-> None_]
    ELSE LET links == size(g)
             w == [e \in Edges(g) |-> g.edges[e].v]
             inc(c) == SumOver(w, {e \in Edges(g) : \A x \in e : p[x] = c})
             wdeg == [x \in Nodes(g) |->
                        SumOver(w, EdgesAt(g, x)) + SumOver(w, Loops(g, x))]
             deg(c) == SumOver(wdeg, {x \in Nodes(g) : p[x] = c})
             coms == {p[x] : x \in Nodes(g)}
             term == [c \in coms |-> 4 * links * inc(c) - deg(c) * deg(c)]
         IN  [raised |-> FALSE,
              value |-> <<SumOver(term, coms), 4 * links * links>>]

\* Faulty variant of set_node_attributes: nodes without an edge are skipped.
set_node_attributes_skipping(g, values, name) ==
    [g EXCEPT !.attr = [x \in Nodes(g) |->
        IF x \in DOMAIN values /\ EdgesAt(g, x) # {}
        THEN Put(g.attr[x], name, values[x]) ELSE g.attr[x]]]

\* nx.set_node_attributes(G, values, name): G.nodes[n][name] = values[n]
\* for every key n of values that is a node.
set_node_attributes(g, values, name) ==
    [g EXCEPT !.attr = [x \in Nodes(g) |->
        IF x \in DOMAIN values THEN Put(g.attr[x], name, values[x])
        ELSE g.attr[x]]]

\* calculate_metrics(G) for the partition p that best_partition returned:
\* the exception of line 107 leaves before any attribute is set.
calculate_metrics(g, p) ==
    LET q == modularity(p, g)
        g1 == set_node_attributes(g, degree_centrality(g), "degree_centrality")
        g2 == set_node_attributes(g1, betweenness_centrality(g),
                                  "betweenness_centrality")
        g3 == set_node_attributes(g2, p, "group")
    IN  IF q.raised
        THEN [raised |-> TRUE, G |-> g, metrics |-> <<>>]
        ELSE [raised |-> FALSE, G |-> g3,
              metrics |-> [density |-> density(g),
                           modularity |-> q.value,
                           degree |-> degree_centrality(g),
                           betweenness |-> betweenness_centrality(g),
                           partition |-> p]]

\* visualize_network(G, partition), lines 114-149: every node's
\* degree_centrality, group, label and betweenness_centrality are read
\* (KeyError when one is missing) and pyvis add_node asserts that the
\* identifier is a str or an int, which a NaN (a float) is not.
visualize_network(g, partition) ==
    LET needed == {"degree_centrality", "group", "label", "betweenness_centrality"}
        bad == \E x \in Nodes(g) : ~(needed \subseteq DOMAIN g.attr[x]) \/ x.k = "nan"
    IN  IF bad THEN [raised |-> TRUE, nodes |-> <<>>, edges |-> <<>>]
        ELSE [raised |-> FALSE,
              nodes |-> [x \in Nodes(g) |->
                          [label |-> g.attr[x]["label"],
                           size |-> g.attr[x]["degree_centrality"],
                           group |-> g.attr[x]["group"]]],
              edges |-> g.edges]

----------------------------------------------------------------------------
(* load_data and the st.cache_data store around it, lines 78-86.           *)

\* DATA_SOURCES, lines 60-76: three phases, each a pair of URLs.
NumPhases == 3
Phases == 1..NumPhases

\* A parsed table (a DataFrame) and Python None in its place.
Table(rows) == [ok |-> TRUE, rows |-> rows]
NoTable == [ok |-> FALSE, rows |-> <<>>]

\* Faulty variant of load_data: a table already parsed is returned although
\* the other read failed.
load_data_partial(edges_ok, nodes_ok, d) ==
    [edges |-> IF edges_ok THEN Table(d.edges) ELSE NoTable,
     nodes |-> IF edges_ok /\ nodes_ok THEN Table(d.nodes) ELSE NoTable,
     error |-> ~(edges_ok /\ nodes_ok)]

\* The body of load_data when the remote files hold dataset d and the two
\* pd.read_csv calls succeed or not: both tables, or st.error and
\* (None, None).  The second read is not made when the first one raised.
load_data(edges_ok, nodes_ok, d) ==
    IF edges_ok /\ nodes_ok
    THEN [edges |-> Table(d.edges), nodes |-> Table(d.nodes), error |-> FALSE]
    ELSE [edges |-> NoTable, nodes |-> NoTable, error |-> TRUE]

\* An empty st.cache_data entry.
Miss == [hit |-> FALSE, edges |-> NoTable, nodes |-> NoTable, error |-> FALSE]

\* Line 174: `edges_df is not None and nodes_df is not None`.
LoadedOk(e, n) == e.ok /\ n.ok

NoMetrics == [set |-> FALSE]
NoHtml == [set |-> FALSE]

----------------------------------------------------------------------------
(* The tables the remote CSV files may hold.  A row is a function from the *)
(* table's column names to cells; all rows of a table have the same        *)
(* columns.                                                                *)

NodeRow(id, label) == ("Id" :> id) @@ ("Label" :> label)
EdgeRow(src, tgt, w) == ("Source" :> src) @@ ("Target" :> tgt) @@ ("Weight" :> w)

\* The row with its column names in lower case ("Id" -> "id", ...).
Lower(row) ==
    LET low == [c \in {"Id", "Label", "Source", "Target", "Weight"} |->
                  CASE c = "Id" -> "id" [] c = "Label" -> "label"
                    [] c = "Source" -> "source" [] c = "Target" -> "target"
                    [] c = "Weight" -> "weight"]
    IN  [c \in {low[d] : d \in DOMAIN row} |->
            row[CHOOSE d \in DOMAIN row : low[d] = c]]

\* The row without the column col.
Without(row, col) == [c \in DOMAIN row \ {col} |-> row[c]]

\* Well-formed tables: nodes 1..n with a label each, and unit-weight edge
\* rows between identifiers 1..MaxNodeRows, in either order and self-loops
\* included; some rows dangle when n is smaller.  No pair is listed twice
\* and the rows are in lexicographic order.
WellNodes(n) == [i \in 1..n |-> NodeRow(Num(i), Text(i))]
ShapeRows ==
    {EdgeRow(Num(i), Num(j), Num(1)) : i \in 1..MaxNodeRows, j \in 1..MaxNodeRows}
Rank(row) == row["Source"].v * (MaxNodeRows + 1) + row["Target"].v
ShapeTable(e) == \A i \in 1..(Len(e) - 1) : Rank(e[i]) < Rank(e[i + 1])

\* Weight columns of every kind between the two nodes 1 and 2, in either
\* order: the Weight column under either capitalization, absent, or under
\* both.
PairRows(w) == {EdgeRow(Num(1), Num(2), w), EdgeRow(Num(2), Num(1), w)}
WeightCells == {NaN, Num(0), Num(2)}
WeightRowSets ==
    LET upper == UNION {PairRows(w) : w \in WeightCells}
        both == {r @@ ("weight" :> Num(3)) : r \in PairRows(Num(0)) \cup PairRows(Num(2))}
    IN  {upper,
         {Lower(r) : r \in upper},
         {Without(r, "Weight") : r \in upper},
         both}

\* Identifier and label columns of every kind: present under either
\* capitalization or both, absent, with empty and zero cells.
IdCells == {NaN, Num(0), Num(1)}
NodeRowSets ==
    LET upper == {NodeRow(i, Text(1)) : i \in IdCells}
        labels == {NodeRow(Num(1), NaN), NodeRow(Num(1), Text(1)), NodeRow(NaN, NaN)}
        both == {NodeRow(i, Text(1)) @@ ("id" :> j) :
                    i \in {Num(0), Num(1)}, j \in {Num(0), Num(2)}}
    IN  {upper,
         {Lower(r) : r \in upper},
         labels,
         {Without(r, "Label") : r \in upper},
         {Without(NodeRow(Num(1), Text(1)), "Id")},
         both}

\* Edge tables of at most one row, with endpoints of every kind.
EndpointTables ==
    LET upper == {EdgeRow(s, t, Num(1)) : s \in IdCells, t \in IdCells}
    IN  {<<>>} \cup {<<r>> : r \in upper \cup {Without(q, "Source") : q \in upper}}

\* The four-node square 1-2, 2-3, 3-4, 4-1 with unit weights.
Square ==
    [nodes |-> [i \in 1..4 |-> NodeRow(Num(i), Text(i))],
     edges |-> [i \in 1..4 |-> EdgeRow(Num(i), Num((i % 4) + 1), Num(1))]]

\* What the remote files of a phase may hold when a run fetches them: the
\* square; three nodes, one of them isolated, with a dangling and a repeated
\* edge row; one node without edges; a node table without identifier column.
RemoteData ==
    {Square,
     [nodes |-> WellNodes(3),
      edges |-> <<EdgeRow(Num(1), Num(2), Num(2)), EdgeRow(Num(4), Num(1), Num(1)),
                  EdgeRow(Num(2), Num(1), NaN)>>],
     [nodes |-> WellNodes(1), edges |-> <<>>],
     [nodes |-> <<Without(NodeRow(Num(1), Text(1)), "Id")>>, edges |-> <<>>]}

----------------------------------------------------------------------------
(* main, lines 151-279: one script run per selection.                      *)

\* The user picks a phase in the sidebar: Streamlit stops the run in
\* progress, if any, and reruns the script from the top with fresh locals.
SelectPhase(p) ==
    /\ pc' = "load"
    /\ selected_phase' = p
    /\ attempts' = 0
    /\ edges_df' = NoTable
    /\ nodes_df' = NoTable
    /\ G' = EmptyGraph
    /\ metrics' = NoMetrics
    /\ messages' = {}
    /\ calls' = <<>>
    /\ html' = NoHtml
    /\ UNCHANGED cache

\* Line 172 on a cache hit: st.cache_data returns the stored return value
\* without running the body, and replays the st.error it recorded.
LoadCached ==
    /\ pc = "load"
    /\ cache[selected_phase].hit
    /\ edges_df' = cache[selected_phase].edges
    /\ nodes_df' = cache[selected_phase].nodes
    /\ messages' = IF cache[selected_phase].error THEN {"error"} ELSE {}
    /\ calls' = Append(calls, "load_data")
    /\ pc' = "loaded"
    /\ UNCHANGED <<selected_phase, cache, attempts, G, metrics, html>>

\* Line 172 on a cache miss: the body runs once; whatever it returns, the
\* exception being caught inside, is stored under the URL pair.
LoadFetch ==
    /\ pc = "load"
    /\ ~cache[selected_phase].hit
    /\ \E d \in RemoteData, edges_ok \in BOOLEAN, nodes_ok \in BOOLEAN :
         LET r == load_data(edges_ok, nodes_ok, d)
         IN  /\ edges_df' = r.edges
             /\ nodes_df' = r.nodes
             /\ messages' = IF r.error THEN {"error"} ELSE {}
             /\ cache' = [cache EXCEPT ![selected_phase] =
                            [hit |-> TRUE, edges |-> r.edges, nodes |-> r.nodes,
                             error |-> r.error]]
    /\ attempts' = attempts + 1
    /\ calls' = Append(calls, "load_data")
    /\ pc' = "loaded"
    /\ UNCHANGED <<selected_phase, G, metrics, html>>

\* Lines 278-279: the else branch of line 174.
Warn ==
    /\ pc = "loaded"
    /\ ~LoadedOk(edges_df, nodes_df)
    /\ messages' = messages \cup {"warning"}
    /\ pc' = "done"
    /\ UNCHANGED <<selected_phase, cache, attempts, edges_df, nodes_df, G,
                   metrics, calls, html>>

\* Line 175.  An exception leaves main: the run ends with a traceback.
CreateGraph ==
    /\ pc = "loaded"
    /\ LoadedOk(edges_df, nodes_df)
    /\ LET r == create_graph(edges_df.rows, nodes_df.rows)
       IN  /\ G' = IF r.raised THEN G ELSE r.G
           /\ pc' = IF r.raised THEN "failed" ELSE "built"
    /\ calls' = Append(calls, "create_graph")
    /\ UNCHANGED <<selected_phase, cache, attempts, edges_df, nodes_df,
                   metrics, messages, html>>

\* Line 176.
CalculateMetrics ==
    /\ pc = "built"
    /\ \E p \in best_partition(G) :
         LET r == calculate_metrics(G, p)
         IN  /\ G' = r.G
             /\ metrics' = IF r.raised THEN NoMetrics
                            ELSE r.metrics @@ [set |-> TRUE]
             /\ pc' = IF r.raised THEN "failed" ELSE "computed"
    /\ calls' = Append(calls, "calculate_metrics")
    /\ UNCHANGED <<selected_phase, cache, attempts, edges_df, nodes_df,
                   messages, html>>

\* Lines 178-276: the cards, the diagram of line 193 and the two tables of
\* lines 197-210, which read degree[n], betweenness[n] and partition[n]
\* for every node.
Render ==
    /\ pc = "computed"
    /\ LET r == visualize_network(G, metrics.partition)
           keyed == \A x \in Nodes(G) :
                      /\ x \in DOMAIN metrics.degree
                      /\ x \in DOMAIN metrics.betweenness
                      /\ x \in DOMAIN metrics.partition
       IN  /\ html' = IF r.raised THEN NoHtml ELSE r @@ [set |-> TRUE]
           /\ pc' = IF r.raised \/ ~keyed THEN "failed" ELSE "done"
    /\ calls' = Append(calls, "visualize_network")
    /\ UNCHANGED <<selected_phase, cache, attempts, edges_df, nodes_df, G,
                   metrics, messages>>

Pipeline == CreateGraph \/ CalculateMetrics \/ Render

\* main at the point where load_data has returned the tables nodes, edges.
StartLoaded(nodes, edges) ==
    /\ pc = "loaded"
    /\ selected_phase = 1
    /\ attempts = 1
    /\ edges_df = Table(edges)
    /\ nodes_df = Table(nodes)
    /\ cache = [p \in Phases |->
                  IF p = 1 THEN [hit |-> TRUE, edges |-> Table(edges),
                                 nodes |-> Table(nodes), error |-> FALSE]
                  ELSE Miss]
    /\ G = EmptyGraph
    /\ metrics = NoMetrics
    /\ messages = {}
    /\ calls = <<"load_data">>
    /\ html = NoHtml

\* The pipeline on every pair of tables of the four families above.
Init ==
    \/ \E n \in 0..MaxNodeRows, k \in 0..MaxEdgeRows :
         \E e \in [1..k -> ShapeRows] : ShapeTable(e) /\ StartLoaded(WellNodes(n), e)
    \/ \E rows \in WeightRowSets, k \in 0..MaxEdgeRows :
         \E e \in [1..k -> rows] : StartLoaded(WellNodes(2), e)
    \/ \E rows \in NodeRowSets, k \in 0..MaxNodeRows :
         \E n \in [1..k -> rows], e \in EndpointTables : StartLoaded(n, e)
    \/ StartLoaded(Square.nodes, Square.edges)

Next == Pipeline

Spec == Init /\ [][Next]_vars

\* The session from its start: nothing selected, nothing cached.
InitCycle ==
    /\ pc = "idle"
    /\ selected_phase = 1
    /\ cache = [p \in Phases |-> Miss]
    /\ attempts = 0
    /\ edges_df = NoTable
    /\ nodes_df = NoTable
    /\ G = EmptyGraph
    /\ metrics = NoMetrics
    /\ messages = {}
    /\ calls = <<>>
    /\ html = NoHtml

NextCycle ==
    \/ \E p \in Phases : SelectPhase(p)
    \/ LoadCached
    \/ LoadFetch
    \/ Warn
    \/ Pipeline

SpecCycle == InitCycle /\ [][NextCycle]_vars

----------------------------------------------------------------------------
(* Properties.                                                             *)

\* The last function main called.
LastCall == IF calls = <<>> THEN "none" ELSE calls[Len(calls)]

\* create_graph has returned a graph in this run.
Built == pc \in {"built", "computed", "done"} \/ (pc = "failed" /\ LastCall # "create_graph")

\* calculate_metrics has returned in this run.
Computed == pc \in {"computed", "done"} \/ (pc = "failed" /\ LastCall = "visualize_network")

\* The identifiers of the node table's rows, as line 91 resolves them.
RowIds == {NodeId(nodes_df.rows[i]) : i \in 1..Len(nodes_df.rows)}

\* Edge row i has both its endpoints among the node table's identifiers.
RowKnown(i) ==
    /\ EdgeSrc(edges_df.rows[i]) \in RowIds
    /\ EdgeTgt(edges_df.rows[i]) \in RowIds

\* The unordered pair edge row i joins.
RowPair(i) == {EdgeSrc(edges_df.rows[i]), EdgeTgt(edges_df.rows[i])}

\* The graph after the node rows and the first n edge rows.
After(n) == AddEdgeRows(AddNodeRows(EmptyGraph, nodes_df.rows, 1).G, edges_df.rows, n)

\* C1: the graph create_graph returns has no edge with an endpoint that is
\* not the identifier of a node-table row; after every edge row every
\* edge's endpoints are nodes and the node set is still the node table's;
\* a row with an unknown endpoint changes nothing; and no edge row makes
\* create_graph raise.
C1_EdgesJoinKnownNodes ==
    /\ Built =>
        /\ Nodes(G) = RowIds
        /\ \A e \in Edges(G) : e \subseteq RowIds
        /\ \A n \in 0..Len(edges_df.rows) :
              /\ Nodes(After(n)) = RowIds
              /\ \A e \in Edges(After(n)) : e \subseteq Nodes(After(n))
              /\ (n > 0 /\ ~RowKnown(n)) => After(n) = After(n - 1)
    /\ (pc = "failed" /\ LastCall = "create_graph") => None_ \in RowIds

\* C1 witness: a built graph that has an edge, from a table with a row whose
\* endpoint is unknown.
C1_Witness ==
    /\ pc = "built"
    /\ Edges(G) # {}
    /\ \E i \in 1..Len(edges_df.rows) : ~RowKnown(i)

\* The weight field of an edge row, under either capitalization.
WeightField(row) == Or(Get(row, "Weight"), Get(row, "weight"))

\* The last row of the edge table that joins the pair e.
LastRowOf(e) ==
    CHOOSE i \in 1..Len(edges_df.rows) :
        /\ RowKnown(i) /\ RowPair(i) = e
        /\ \A j \in (i + 1)..Len(edges_df.rows) : ~(RowKnown(j) /\ RowPair(j) = e)

\* C3: every inserted edge carries the row's weight field when that field
\* is a non-zero number, and 1 when the field is missing, empty or zero; so
\* every stored weight is a number.
C3_WeightDefaultsToOne ==
    Built =>
        \A e \in Edges(G) :
            LET f == WeightField(edges_df.rows[LastRowOf(e)])
            IN  /\ G.edges[e].k = "num"
                /\ G.edges[e] = IF f.k = "num" /\ f.v # 0 THEN f ELSE Num(1)

\* No edge of the graph is a self-loop.
NoSelfLoops == \A e \in Edges(G) : Cardinality(e) = 2

\* C4: once calculate_metrics has run on a graph of N nodes and M edges
\* without self-loops, the density it returned is 2M / (N(N-1)) when N > 1
\* and 0 when N is 0 or 1.
C4_DensityFormula ==
    ("calculate_metrics" \in {calls[i] : i \in 1..Len(calls)} /\ NoSelfLoops) =>
        /\ metrics.set
        /\ LET n == number_of_nodes(G)
               m == number_of_edges(G)
               d == metrics.density
           IN  /\ n > 1 => d[1] * n * (n - 1) = 2 * m * d[2]
               /\ n <= 1 => d[1] = 0

\* Every two distinct nodes are joined.
Complete == \A x, y \in Nodes(G) : x # y => {x, y} \in Edges(G)

\* Every degree centrality calculate_metrics assigned is in [0, 1], and is
\* 1 when the graph is complete.
UnitCentrality ==
    \A x \in Nodes(G) :
        LET c == G.attr[x]["degree_centrality"]
        IN  /\ c[2] > 0
            /\ 0 <= c[1] /\ c[1] <= c[2]
            /\ Complete => c[1] = c[2]

\* C5 as stated: for every graph create_graph can build, the degree
\* centrality assigned to every node is in [0, 1], and is 1 for every node
\* of a complete graph.
C5_CentralityInUnitInterval == Computed => UnitCentrality

\* C5 amended: the same, for the graphs without a self-loop.
C5_CentralityInUnitIntervalSimple == (Computed /\ NoSelfLoops) => UnitCentrality

\* C5 witness: metrics computed on a complete graph of three or more nodes
\* and on no self-loop.
C5_Witness ==
    /\ Computed
    /\ NoSelfLoops
    /\ Complete
    /\ number_of_nodes(G) >= 3

\* C6: create_graph never raises, whatever columns are missing and whatever
\* cells are empty or falsy.
C6_CreateGraphNeverRaises == ~(pc = "failed" /\ LastCall = "create_graph")

\* C8: the built graph has one edge for every unordered pair that some edge
\* row with two known endpoints joins, in either order, and no other; its
\* weight is the one resolved from the last such row.
C8_LastRowWins ==
    Built =>
        LET pairs == {RowPair(i) : i \in {j \in 1..Len(edges_df.rows) : RowKnown(j)}}
        IN  /\ Edges(G) = pairs
            /\ number_of_edges(G) = Cardinality(pairs)
            /\ \A e \in pairs : G.edges[e] = EdgeWeight(edges_df.rows[LastRowOf(e)])

\* C8 witness: a built graph from a table where two rows join the same two
\* nodes in opposite order with different weights.
C8_Witness ==
    /\ pc = "built"
    /\ \E i, j \in 1..Len(edges_df.rows) :
          /\ i < j /\ RowKnown(i) /\ RowKnown(j)
          /\ RowPair(i) = RowPair(j)
          /\ EdgeSrc(edges_df.rows[i]) = EdgeTgt(edges_df.rows[j])
          /\ EdgeSrc(edges_df.rows[i]) # EdgeTgt(edges_df.rows[i])
          /\ EdgeWeight(edges_df.rows[i]) # EdgeWeight(edges_df.rows[j])

\* C10: a run whose load succeeded and whose graph was built, be it without
\* nodes, of a single node or without edges, goes on through compute to
\* render and ends without an error.
C10_BuiltGraphIsRendered == (LoadedOk(edges_df, nodes_df) /\ Built) => pc # "failed"

\* load_data has returned in this run.
LoadReturned == pc \in {"loaded", "built", "computed", "done", "failed"}

\* C2: when a fetch or a parse fails, load_data reports both tables absent,
\* never one of them; the failure is shown as a message; and the run calls
\* neither create_graph, calculate_metrics nor visualize_network, so that
\* it renders nothing.
C2_FailedLoadRendersNothing ==
    LoadReturned =>
        /\ edges_df.ok <=> nodes_df.ok
        /\ ~(edges_df.ok /\ nodes_df.ok) =>
              /\ calls = <<"load_data">>
              /\ pc \in {"loaded", "done"}
              /\ G = EmptyGraph /\ ~metrics.set /\ ~html.set
              /\ attempts = 1 => "error" \in messages
              /\ pc = "done" => "warning" \in messages

\* C2 witness: a run has ended whose fetch failed: load_data returned no
\* table, and both messages are shown.
C2_Witness ==
    /\ pc = "done"
    /\ attempts = 1
    /\ ~nodes_df.ok
    /\ messages = {"error", "warning"}

\* C7: a run fetches at most once, and a failed load is never a remembered
\* one: whenever load_data has reported the tables absent, it has tried to
\* fetch them in this very run.
C7_FailureIsNotMemoized ==
    LoadReturned =>
        /\ attempts <= 1
        /\ ~(edges_df.ok /\ nodes_df.ok) => attempts = 1

\* C9: when the diagram and the tables are about to read, or have read,
\* the node attributes, calculate_metrics has set degree_centrality,
\* betweenness_centrality and group on every node of the graph that this
\* run built from the tables load_data returned for the selected phase, and
\* the partition has an entry for every node.
C9_AttributesSetBeforeRead ==
    (pc = "computed" \/ LastCall = "visualize_network") =>
        LET built == create_graph(edges_df.rows, nodes_df.rows).G
        IN  /\ SubSeq(calls, 1, 3) = <<"load_data", "create_graph", "calculate_metrics">>
            /\ edges_df = cache[selected_phase].edges
            /\ nodes_df = cache[selected_phase].nodes
            /\ Nodes(G) = Nodes(built) /\ G.edges = built.edges
            /\ DOMAIN metrics.partition = Nodes(G)
            /\ \A x \in Nodes(G) :
                  /\ {"degree_centrality", "betweenness_centrality", "group"}
                        \subseteq DOMAIN G.attr[x]
                  /\ G.attr[x]["degree_centrality"] = degree_centrality(built)[x]
                  /\ G.attr[x]["group"] = metrics.partition[x]

\* C9 witness: a run has rendered a graph with a node that has no edge,
\* after a run that loaded other tables for another phase.
C9_Witness ==
    /\ pc = "done"
    /\ html.set
    /\ \E x \in Nodes(G) : EdgesAt(G, x) = {}
    /\ \E p \in Phases :
          /\ p # selected_phase
          /\ cache[p].hit /\ cache[p].nodes.ok
          /\ cache[p].nodes # nodes_df

====
